---- MODULE Spec2Model ----
(***************************************************************************)
(* A model of the cuirq native bridge: the signal forwarder (callback      *)
(* registry, src/cpp/signalforwarder.cpp) and the JSON list model (dynamic *)
(* table model, src/cpp/jvmlistmodel.cpp).                                 *)
(*                                                                         *)
(* Text is a sequence of code units (small integers); 0 is the NUL code    *)
(* unit.  Only ASCII code units occur, for which QString::toUtf8 yields    *)
(* the same units as bytes.                                                *)
(***************************************************************************)
EXTENDS Integers, Sequences, FiniteSets, TLC

(***************************************************************************)
(* Bounds of the model.                                                    *)
(***************************************************************************)
\* number of global-reference slots the managed runtime can hand out
MaxSlots == 2
\* longest argument list passed to emitSignal
MaxArgs == 2
\* longest top-level JSON array passed to setJsonData
MaxRecords == 2

(***************************************************************************)
(* Signal forwarder: domains.                                              *)
(***************************************************************************)
SignalNames == {"clicked", "moved"}
\* Java handler objects (local references passed to registerHandler)
Handlers == {"H1", "H2"}
\* the null jobject
NULL == "null"
\* m_handlers has no entry for the key (find returns end())
NoEntry == 0
\* the null global reference NewGlobalRef returns on failure
NullRef == 0
\* a global-reference slot that pins nothing
Free == "free"
\* what a call through a deleted global reference lands on
Collected == "collected"
Slots == 1..MaxSlots
\* "ui" runs the event loop and called initialize (attached to the JVM);
\* "worker" is a toolkit-internal thread, not attached at start
Threads == {"ui", "worker"}
NoName == "none"

JNI_OK == "JNI_OK"
JNI_EDETACHED == "JNI_EDETACHED"
JNI_ERR == "JNI_ERR"

\* ASCII texts: "a", "a\0b", "true", "false"
TextA == <<97>>
TextANulB == <<97, 0, 98>>
TextTrue == <<116, 114, 117, 101>>
TextFalse == <<102, 97, 108, 115, 101>>

\* QVariant values QML can pass
QStr(s) == [type |-> "QString", num |-> 0, str |-> s]
QInt(n) == [type |-> "int", num |-> n, str |-> <<>>]
QBool(b) == [type |-> "bool", num |-> IF b THEN 1 ELSE 0, str |-> <<>>]
QInvalid == [type |-> "invalid", num |-> 0, str |-> <<>>]
Variants == {QStr(TextANulB), QBool(TRUE)}

RECURSIVE SeqsUpTo(_, _)
SeqsUpTo(S, n) ==
  IF n = 0 THEN {<<>>}
  ELSE LET shorter == SeqsUpTo(S, n - 1)
       IN shorter \cup {Append(q, x) : q \in {r \in shorter : Len(r) = n - 1}, x \in S}

ArgLists == SeqsUpTo(Variants, MaxArgs)

VARIABLES
  m_handlers,        \* signal name -> global reference (slot) or NoEntry
  globalRefs,        \* JVM global-reference table: slot -> pinned object or Free
  attached,          \* threads attached to the JVM
  pendingException,  \* threads with a Java exception pending
  crashed,           \* undefined behaviour ended the process
  calls,             \* handler invocations made by the last emitSignal
  sfOp,              \* the last signal-forwarder operation and its result
  registered,        \* history: name -> handler of the last successful register
  pinnedFor,         \* history: slot -> the name it was pinned for
  m_items,           \* rows of the list model
  m_roleNames,       \* role id -> role name
  m_roleIds,         \* role name -> role id
  m_nextRoleId,      \* next role id to hand out
  lmOp               \* history: the last list-model operation, its input, the
                     \* counter before it and the operation before it

sfVars == <<m_handlers, globalRefs, attached, pendingException, crashed, calls,
            sfOp, registered, pinnedFor>>
lmVars == <<m_items, m_roleNames, m_roleIds, m_nextRoleId, lmOp>>

VARIABLES
  m_autoReload,      \* QmlWatcher: reload on change
  files,             \* QFileSystemWatcher::files(): the watched paths
  m_currentQmlPath,  \* QmlWatcher: the path recorded by watchFile
  timers,            \* single-shot timers armed and not yet fired, oldest first
  rootObjects,       \* QQmlApplicationEngine::rootObjects()
  g_state,           \* StateObject: property name -> value
  componentCache,    \* the engine's cache of compiled components, by path
  burst,             \* history: the current burst of change notifications
  wOp                \* history: the last watcher or engine operation

wVars == <<m_autoReload, files, m_currentQmlPath, timers, rootObjects, g_state,
           componentCache, burst, wOp>>

VARIABLES
  g_models,          \* the names in the model registry
  rOp                \* history: the last call of a registry entry point

rVars == <<g_models, rOp>>

VARIABLES
  pc,                \* where the thread inside setJsonData or clear stands
  idx,               \* setJsonData: the array element the loop is at
  newItemsLocal,          \* setJsonData: the local list of converted items
  call,              \* history: the call in progress and the model before it
  seen               \* history: what the last read by the UI thread saw

tVars == <<pc, idx, newItemsLocal, call, seen>>

VARIABLES
  emitting,          \* callJavaHandler between its lookup and its invocation
  registering        \* registerHandler between its unpin and its pin

eVars == <<emitting, registering>>

vars == <<m_handlers, globalRefs, attached, pendingException, crashed, calls,
          sfOp, registered, pinnedFor, m_items, m_roleNames, m_roleIds,
          m_nextRoleId, lmOp, m_autoReload, files, m_currentQmlPath, timers,
          rootObjects, g_state, componentCache, burst, wOp, g_models, rOp, pc, idx, newItemsLocal,
          call, seen, emitting, registering>>

\* what the signal forwarder, the list model, the watcher leave alone
otherThanSf == <<lmVars, wVars, rVars, tVars, eVars>>
otherThanLm == <<sfVars, wVars, rVars, tVars, eVars>>
otherThanW == <<sfVars, lmVars, rVars, tVars, eVars>>

(***************************************************************************)
(* The managed runtime as the forwarder sees it through JNI.               *)
(***************************************************************************)
FreeSlots(refs) == {s \in Slots : refs[s] = Free}

\* NewGlobalRef: NULL for a null object or when the runtime is out of memory,
\* otherwise any unused slot, which then pins the object
NewGlobalRef(refs, obj) ==
  {[ref |-> NullRef, refs |-> refs]} \cup
  (IF obj = NULL THEN {}
   ELSE {[ref |-> s, refs |-> [refs EXCEPT ![s] = obj]] : s \in FreeSlots(refs)})

\* DeleteGlobalRef: unpins a live reference; on a reference that was already
\* deleted the behaviour is undefined (nothing happens, or the process dies)
DeleteGlobalRef(refs, ref) ==
  IF refs[ref] # Free
  THEN {[refs |-> [refs EXCEPT ![ref] = Free], crash |-> FALSE]}
  ELSE {[refs |-> refs, crash |-> FALSE], [refs |-> refs, crash |-> TRUE]}

\* GetEnv for the calling thread
GetEnv(t) == IF t \in attached THEN JNI_OK ELSE JNI_EDETACHED

\* AttachCurrentThread may fail
AttachCurrentThread(t) == {JNI_OK, JNI_ERR}

\* CallVoidMethod through a reference: the pinned object is invoked and may
\* throw; through a deleted reference the behaviour is undefined (the call
\* lands on a collected object, or the process dies)
CallVoidMethod(refs, ref) ==
  IF refs[ref] # Free
  THEN {[target |-> refs[ref], threw |-> b, crash |-> FALSE] : b \in BOOLEAN}
  ELSE {[target |-> Collected, threw |-> FALSE, crash |-> FALSE],
        [target |-> Collected, threw |-> FALSE, crash |-> TRUE]}

\* NewStringUTF reads a NUL-terminated byte string
RECURSIVE NewStringUTF(_)
NewStringUTF(bytes) ==
  IF bytes = <<>> \/ Head(bytes) = 0 THEN <<>>
  ELSE <<Head(bytes)>> \o NewStringUTF(Tail(bytes))

(***************************************************************************)
(* QVariant::toString                                                      *)
(***************************************************************************)
RECURSIVE Digits(_)
Digits(n) == IF n < 10 THEN <<48 + n>> ELSE Digits(n \div 10) \o <<48 + (n % 10)>>

toString(v) ==
  CASE v.type = "QString" -> v.str
    [] v.type = "int" -> IF v.num < 0 THEN <<45>> \o Digits(0 - v.num) ELSE Digits(v.num)
    [] v.type = "bool" -> IF v.num = 1 THEN TextTrue ELSE TextFalse
    [] OTHER -> <<>>

variantsToStrings(variants) == [i \in 1..Len(variants) |-> toString(variants[i])]

(***************************************************************************)
(* History bookkeeping shared by the forwarder's operations.               *)
(***************************************************************************)
\* a slot that no longer pins anything is pinned for no name
PinnedForAfter(refs) ==
  [s \in Slots |-> IF refs[s] = Free THEN NoName ELSE pinnedFor[s]]

RegisterOp(name, handler, ret) ==
  [op |-> "register", name |-> name, handler |-> handler, args |-> <<>>,
   thread |-> "ui", ret |-> ret]

RegisterReturn(name, handler, ret, handlers, refs, crash) ==
  /\ m_handlers' = handlers
  /\ globalRefs' = refs
  /\ crashed' = crash
  /\ pinnedFor' = IF ret THEN [PinnedForAfter(refs) EXCEPT ![handlers[name]] = name]
                  ELSE PinnedForAfter(refs)
  /\ registered' = IF ret THEN [registered EXCEPT ![name] = handler] ELSE registered
  /\ sfOp' = RegisterOp(name, handler, ret)
  /\ calls' = <<>>
  /\ UNCHANGED <<attached, pendingException>>

(***************************************************************************)
(* SignalForwarder::registerHandler                                        *)
(***************************************************************************)
\* lines 95-117: unpin the old handle, pin the new one, store it
RegisterBody(signalName, handler) ==
  LET it == m_handlers[signalName] IN
  \E del \in (IF it # NoEntry THEN DeleteGlobalRef(globalRefs, it)
              ELSE {[refs |-> globalRefs, crash |-> FALSE]}) :
    IF del.crash
    THEN RegisterReturn(signalName, handler, FALSE, m_handlers, del.refs, TRUE)
    ELSE \E new \in NewGlobalRef(del.refs, handler) :
           IF new.ref = NullRef
           THEN RegisterReturn(signalName, handler, FALSE, m_handlers, new.refs, FALSE)
           ELSE RegisterReturn(signalName, handler, TRUE,
                               [m_handlers EXCEPT ![signalName] = new.ref],
                               new.refs, FALSE)

\* variant: the null check of lines 90-93 left out
registerHandler_noNullCheck(signalName, handler) == RegisterBody(signalName, handler)

registerHandler(signalName, handler) ==
  IF handler = NULL
  THEN RegisterReturn(signalName, handler, FALSE, m_handlers, globalRefs, FALSE)
  ELSE RegisterBody(signalName, handler)

(***************************************************************************)
(* Java_qml_Bridge_registerSignalHandler (g_signalForwarder is set)        *)
(***************************************************************************)
Java_qml_Bridge_registerSignalHandler(signalName, handler) ==
  IF handler = NULL
  THEN RegisterReturn(signalName, handler, FALSE, m_handlers, globalRefs, FALSE)
  ELSE registerHandler(signalName, handler)

(***************************************************************************)
(* SignalForwarder::unregisterHandler                                      *)
(***************************************************************************)
UnregisterOp(name) ==
  [op |-> "unregister", name |-> name, handler |-> NULL, args |-> <<>>,
   thread |-> "ui", ret |-> FALSE]

unregisterHandler(signalName) ==
  LET it == m_handlers[signalName] IN
  /\ sfOp' = UnregisterOp(signalName)
  /\ calls' = <<>>
  /\ UNCHANGED <<attached, pendingException>>
  /\ IF it = NoEntry
     THEN UNCHANGED <<m_handlers, globalRefs, crashed, pinnedFor, registered>>
     ELSE \E del \in DeleteGlobalRef(globalRefs, it) :
            /\ globalRefs' = del.refs
            /\ crashed' = del.crash
            /\ pinnedFor' = PinnedForAfter(del.refs)
            /\ IF del.crash
               THEN UNCHANGED <<m_handlers, registered>>
               ELSE /\ m_handlers' = [m_handlers EXCEPT ![signalName] = NoEntry]
                    /\ registered' = [registered EXCEPT ![signalName] = NULL]

(***************************************************************************)
(* SignalForwarder::callJavaHandler and emitSignal                         *)
(***************************************************************************)
\* variant: the result of AttachCurrentThread is not looked at
ObtainEnv_ignoresAttachResult(t) ==
  IF GetEnv(t) = JNI_EDETACHED
  THEN {[ok |-> TRUE, attached |-> IF r = JNI_OK THEN attached \cup {t} ELSE attached]
          : r \in AttachCurrentThread(t)}
  ELSE {[ok |-> GetEnv(t) = JNI_OK, attached |-> attached]}

\* lines 185-202: a JNIEnv for the calling thread, attaching it on demand
ObtainEnv(t) ==
  IF GetEnv(t) = JNI_EDETACHED
  THEN {[ok |-> r = JNI_OK, attached |-> IF r = JNI_OK THEN attached \cup {t} ELSE attached]
          : r \in AttachCurrentThread(t)}
  ELSE {[ok |-> GetEnv(t) = JNI_OK, attached |-> attached]}

\* variant: the exception is described but not cleared
ExceptionBoundary_noClear(pending, t) == pending

\* lines 219-225: a pending Java exception is described and cleared
ExceptionBoundary(pending, t) == IF t \in pending THEN pending \ {t} ELSE pending

EmitReturn(invoked, att, pending, crash) ==
  /\ calls' = invoked
  /\ attached' = att
  /\ pendingException' = pending
  /\ crashed' = crash
  /\ UNCHANGED <<m_handlers, globalRefs, registered, pinnedFor>>

\* lines 204-230: build the String[] and call handler.handle(args)
InvokeHandler(t, ref, args, att) ==
  LET javaArgs == [i \in 1..Len(args) |-> NewStringUTF(args[i])] IN
  \E c \in CallVoidMethod(globalRefs, ref) :
    IF c.crash
    THEN EmitReturn(<<>>, att, pendingException, TRUE)
    ELSE EmitReturn(<<[handler |-> c.target, args |-> javaArgs, threw |-> c.threw]>>,
                    att,
                    ExceptionBoundary(IF c.threw THEN pendingException \cup {t}
                                      ELSE pendingException, t),
                    FALSE)

\* variant: the JNIEnv is obtained before the handler is looked up
callJavaHandler_envFirst(t, signalName, args) ==
  LET it == m_handlers[signalName] IN
  \E e \in ObtainEnv(t) :
    IF it = NoEntry \/ ~e.ok
    THEN EmitReturn(<<>>, e.attached, pendingException, FALSE)
    ELSE InvokeHandler(t, it, args, e.attached)

callJavaHandler(t, signalName, args) ==
  LET it == m_handlers[signalName] IN
  IF it = NoEntry
  THEN EmitReturn(<<>>, attached, pendingException, FALSE)
  ELSE \E e \in ObtainEnv(t) :
         IF ~e.ok
         THEN EmitReturn(<<>>, e.attached, pendingException, FALSE)
         ELSE InvokeHandler(t, it, args, e.attached)

EmitOp(t, name, args) ==
  [op |-> "emit", name |-> name, handler |-> NULL, args |-> args,
   thread |-> t, ret |-> FALSE]

emitSignal(t, signalName, args) ==
  /\ sfOp' = EmitOp(t, signalName, args)
  /\ callJavaHandler(t, signalName, variantsToStrings(args))

(***************************************************************************)
(* The forwarder as a state machine.                                       *)
(***************************************************************************)
NoOp == [op |-> "none", name |-> NoName, handler |-> NULL, args |-> <<>>,
         thread |-> "ui", ret |-> FALSE]

SfInit ==
  /\ m_handlers = [n \in SignalNames |-> NoEntry]
  /\ globalRefs = [s \in Slots |-> Free]
  /\ attached = {"ui"}
  /\ pendingException = {}
  /\ crashed = FALSE
  /\ calls = <<>>
  /\ sfOp = NoOp
  /\ registered = [n \in SignalNames |-> NULL]
  /\ pinnedFor = [s \in Slots |-> NoName]

Register ==
  /\ ~crashed
  /\ \E n \in SignalNames, h \in Handlers \cup {NULL} : registerHandler(n, h)
  /\ UNCHANGED otherThanSf

BridgeRegister ==
  /\ ~crashed
  /\ \E n \in SignalNames, h \in Handlers \cup {NULL} :
       Java_qml_Bridge_registerSignalHandler(n, h)
  /\ UNCHANGED otherThanSf

Unregister ==
  /\ ~crashed
  /\ \E n \in SignalNames : unregisterHandler(n)
  /\ UNCHANGED otherThanSf

Emit ==
  /\ ~crashed
  /\ \E t \in Threads, n \in SignalNames, a \in ArgLists : emitSignal(t, n, a)
  /\ UNCHANGED otherThanSf


(***************************************************************************)
(* List model: domains.                                                    *)
(***************************************************************************)
\* Qt::UserRole + 1, the first role id
FirstRoleId == 257

\* field names: "" and "a"
FieldNames == {<<>>, TextA}

\* QString ordering of two names (by code unit)
RECURSIVE KeyLess(_, _)
KeyLess(a, b) ==
  IF b = <<>> THEN FALSE
  ELSE IF a = <<>> THEN TRUE
  ELSE IF Head(a) # Head(b) THEN Head(a) < Head(b)
  ELSE KeyLess(Tail(a), Tail(b))

Range(q) == {q[i] : i \in 1..Len(q)}

\* the member lists of a JSON object, as written in the text: distinct names
MemberLists == {q \in SeqsUpTo(FieldNames, Cardinality(FieldNames)) :
                  Cardinality(Range(q)) = Len(q)}

\* elements of a top-level array: objects with their member names in text
\* order, and one value that is no object (a nested array [{"a": ...}])
JsonElements ==
  {[isObject |-> TRUE, keys |-> q] : q \in MemberLists} \cup
  {[isObject |-> FALSE, keys |-> <<TextA>>]}

\* parsed documents: an array, a top-level object, or text that is no JSON
JsonDocs ==
  {[kind |-> "array", elems |-> e] : e \in SeqsUpTo(JsonElements, MaxRecords)} \cup
  {[kind |-> "object", elems |-> <<[isObject |-> TRUE, keys |-> <<TextA>>]>>],
   [kind |-> "invalid", elems |-> <<>>]}

NoDoc == [kind |-> "none", elems |-> <<>>]

\* the value of the j-th member of the i-th element (all values distinct)
MemberValue(i, j) == <<i, j>>

(***************************************************************************)
(* JvmListModel                                                            *)
(***************************************************************************)
\* QMap iterates its keys in ascending order
RECURSIVE Ascending(_)
Ascending(S) ==
  IF S = {} THEN <<>>
  ELSE LET least == CHOOSE k \in S : \A j \in S \ {k} : KeyLess(k, j)
       IN <<least>> \o Ascending(S \ {least})

\* variant: the keys are visited in descending order
QMapKeys_descending(item) ==
  LET up == Ascending(DOMAIN item) IN [i \in 1..Len(up) |-> up[Len(up) + 1 - i]]

QMapKeys(item) == Ascending(DOMAIN item)

\* lines 68-73: QJsonObject to QVariantMap
toVariantMap(elems, i) ==
  [k \in Range(elems[i].keys) |->
     MemberValue(i, CHOOSE j \in 1..Len(elems[i].keys) : elems[i].keys[j] = k)]

\* variant: the role is registered without asking whether it exists
RegisterRole_noContainsCheck(roles, roleName) ==
  [ids |-> (roleName :> roles.next) @@ roles.ids,
   names |-> (roles.next :> roleName) @@ roles.names,
   next |-> roles.next + 1]

\* variant: the id is recorded under the name, the name not under the id
RegisterRole_idOnly(roles, roleName) ==
  IF roleName \in DOMAIN roles.ids
  THEN roles
  ELSE [ids |-> (roleName :> roles.next) @@ roles.ids,
        names |-> roles.names,
        next |-> roles.next + 1]

\* lines 101-109: one key of updateRoleNames
RegisterRole(roles, roleName) ==
  IF roleName \in DOMAIN roles.ids
  THEN roles
  ELSE [ids |-> (roleName :> roles.next) @@ roles.ids,
        names |-> (roles.next :> roleName) @@ roles.names,
        next |-> roles.next + 1]

RECURSIVE RegisterRoles(_, _)
RegisterRoles(roles, keys) ==
  IF keys = <<>> THEN roles
  ELSE RegisterRoles(RegisterRole(roles, Head(keys)), Tail(keys))

updateRoleNames(roles, item) == RegisterRoles(roles, QMapKeys(item))

\* variant: the loop ends at the first element that is no object
RECURSIVE ConvertItems_stopAtNonObject(_, _, _, _)
ConvertItems_stopAtNonObject(elems, i, roles, newItems) ==
  IF i > Len(elems) \/ ~elems[i].isObject THEN [roles |-> roles, items |-> newItems]
  ELSE LET item == toVariantMap(elems, i)
       IN ConvertItems_stopAtNonObject(elems, i + 1, updateRoleNames(roles, item),
                                       Append(newItems, item))

\* lines 62-79: the loop over the array, from element i on
RECURSIVE ConvertItems(_, _, _, _)
ConvertItems(elems, i, roles, newItems) ==
  IF i > Len(elems) THEN [roles |-> roles, items |-> newItems]
  ELSE IF ~elems[i].isObject THEN ConvertItems(elems, i + 1, roles, newItems)
  ELSE LET item == toVariantMap(elems, i)
       IN ConvertItems(elems, i + 1, updateRoleNames(roles, item),
                       Append(newItems, item))

Roles == [ids |-> m_roleIds, names |-> m_roleNames, next |-> m_nextRoleId]

LmOp(op, doc) ==
  [op |-> op, doc |-> doc, nextBefore |-> m_nextRoleId, prevOp |-> lmOp.op]

\* variant: a document that is no array empties the rows
setJsonData_rejectClears(doc) ==
  /\ lmOp' = LmOp("setJsonData", doc)
  /\ IF doc.kind # "array"
     THEN /\ m_items' = <<>>
          /\ UNCHANGED <<m_roleNames, m_roleIds, m_nextRoleId>>
     ELSE LET r == ConvertItems(doc.elems, 1, Roles, <<>>) IN
          /\ m_items' = r.items
          /\ m_roleIds' = r.roles.ids
          /\ m_roleNames' = r.roles.names
          /\ m_nextRoleId' = r.roles.next

setJsonData(doc) ==
  /\ lmOp' = LmOp("setJsonData", doc)
  /\ IF doc.kind # "array"
     THEN UNCHANGED <<m_items, m_roleNames, m_roleIds, m_nextRoleId>>
     ELSE LET r == ConvertItems(doc.elems, 1, Roles, <<>>) IN
          /\ m_items' = r.items
          /\ m_roleIds' = r.roles.ids
          /\ m_roleNames' = r.roles.names
          /\ m_nextRoleId' = r.roles.next

\* variant: clear also forgets the roles and restarts the counter
clear_resetsRoles ==
  /\ lmOp' = LmOp("clear", NoDoc)
  /\ m_items' = <<>>
  /\ m_roleNames' = <<>>
  /\ m_roleIds' = <<>>
  /\ m_nextRoleId' = FirstRoleId

clear ==
  /\ lmOp' = LmOp("clear", NoDoc)
  /\ m_items' = <<>>
  /\ UNCHANGED <<m_roleNames, m_roleIds, m_nextRoleId>>

count == Len(m_items)

\* an invalid QVariant
Absent == <<>>

\* QModelIndex::isValid for the index of a row
isValid(row) == row >= 0

\* QHash::value: the name of the role, an empty QByteArray when there is none
RoleNameOf(role) == IF role \in DOMAIN m_roleNames THEN m_roleNames[role] ELSE <<>>

\* lines 23-36
data(row, role) ==
  IF ~isValid(row) \/ row >= Len(m_items) THEN Absent
  ELSE LET item == m_items[row + 1]
           roleName == RoleNameOf(role)
       IN IF roleName = <<>> THEN Absent
          ELSE IF roleName \in DOMAIN item THEN item[roleName] ELSE Absent

\* the role a view uses for a field name: roleNames() inverted
roleNames == m_roleNames

NoRole == 0

RoleOfField(fieldName) ==
  IF \E r \in DOMAIN roleNames : roleNames[r] = fieldName
  THEN CHOOSE r \in DOMAIN roleNames : roleNames[r] = fieldName
  ELSE NoRole

\* get(rowIndex, fieldName): data() under the role of the field
get(rowIndex, fieldName) == data(rowIndex, RoleOfField(fieldName))

SetData ==
  /\ \E doc \in JsonDocs : setJsonData(doc)
  /\ UNCHANGED otherThanLm

Clear ==
  /\ clear
  /\ UNCHANGED otherThanLm

LmInit ==
  /\ m_items = <<>>
  /\ m_roleNames = <<>>
  /\ m_roleIds = <<>>
  /\ m_nextRoleId = FirstRoleId
  /\ lmOp = [op |-> "none", doc |-> NoDoc, nextBefore |-> FirstRoleId, prevOp |-> "none"]

(***************************************************************************)
(* Live-reload watcher, the QML engine's root objects and the state object *)
(* after initialize(): g_engine, g_qmlWatcher and g_state exist and are    *)
(* never reset.                                                            *)
(***************************************************************************)
MaxPending == 2   \* timers armed at one time
MaxRoots == 2     \* root objects listed at one time

Paths == {"main.qml", "other.qml"}
NoPath == "none"
PropNames == {"title"}
PropValues == {"v1"}

Live == "live"
Doomed == "doomed"

NoBurst == [path |-> NoPath, notes |-> 0, reloads |-> 0, since |-> FALSE]

\* QFileSystemWatcher::addPath of a path that is not watched; the file system
\* decides whether it succeeds
addPath(fs, path, added) == IF added THEN fs \cup {path} ELSE fs

\* QQmlApplicationEngine::load: a root object is appended when the component
\* could be created, none when it could not
load(roots, loaded) == IF loaded THEN Append(roots, Live) ELSE roots

\* QObject::deleteLater on every listed root: the objects stay listed until the
\* event loop deletes them
deleteLater(roots) == [i \in 1..Len(roots) |-> Doomed]

\* QQmlApplicationEngine::load: the component is compiled from the file unless
\* the cache holds a compiled form of it
FromSource(cache, path) == path \notin cache

\* a component that was created stays in the cache
Cached(cache, path, loaded) == IF loaded THEN cache \cup {path} ELSE cache

\* QQmlEngine::clearComponentCache
clearComponentCache(cache) == {}

\* a timer armed by onFileChanged; history: whether it belongs to the current
\* burst
Timer(path, inBurst) == [path |-> path, inBurst |-> inBurst]

\* history: a reload of the path of the youngest armed timer has run since
\* that timer was armed
ReloadedSinceNote(path) ==
  /\ Tail(timers) # <<>>
  /\ burst.since \/ timers[Len(timers)].path = path

WOp(op, path, loaded, added, dropped, result) ==
  [op |-> op, path |-> path, loaded |-> loaded, added |-> added,
   dropped |-> dropped, result |-> result, fromSource |-> FALSE]

\* stateobject.cpp lines 15-21
setProp(name, value) ==
  g_state' = [n \in DOMAIN g_state \cup {name} |-> IF n = name THEN value ELSE g_state[n]]

\* qmlwatcher.h line 42: never written
m_savedProperties == <<>>

\* lines 124-134: logs, saves nothing
saveContextProperties(state) == m_savedProperties

\* variant: the saved properties replace the contents of the state object
restoreContextProperties_putsSavedBack(state, saved) == saved

\* lines 136-141: logs, restores nothing
restoreContextProperties(state, saved) == state

\* variant: the path is recorded before the watch is established
watchFile_recordsFirst(filePath, added) ==
  /\ m_currentQmlPath' = filePath
  /\ files' = IF filePath \in files THEN files ELSE addPath(files, filePath, added)

\* lines 25-41
watchFile(filePath, added) ==
  IF filePath \in files THEN UNCHANGED <<files, m_currentQmlPath>>
  ELSE IF addPath(files, filePath, added) = files
       THEN UNCHANGED <<files, m_currentQmlPath>>
       ELSE /\ files' = addPath(files, filePath, added)
            /\ m_currentQmlPath' = filePath

\* lines 43-47
unwatchFile(filePath) == files' = files \ {filePath}

\* lines 49-53
setAutoReload(enabled) == m_autoReload' = enabled

\* history: a burst starts with a notification that finds no timer armed and
\* takes in the notifications for the same path until its first reload
JoinsBurst(path) ==
  /\ burst.notes >= 1
  /\ burst.reloads = 0
  /\ burst.path = path
  /\ \A i \in 1..Len(timers) : timers[i].inBurst

\* variant: the flag is not consulted
onFileChanged_ignoresFlag(path, fs, added) ==
  /\ files' = IF path \notin fs THEN addPath(fs, path, added) ELSE fs
  /\ timers' = Append(timers, Timer(path, FALSE))
  /\ UNCHANGED burst

\* variant: the watch is not re-armed
onFileChanged_noReArm(path, fs, added) ==
  IF ~m_autoReload
  THEN /\ files' = fs
       /\ UNCHANGED <<timers, burst>>
  ELSE /\ files' = fs
       /\ timers' = Append(timers, Timer(path, FALSE))
       /\ UNCHANGED burst

\* lines 55-76; fs is the watch set as the notifying mechanism left it
onFileChanged(path, fs, added) ==
  IF ~m_autoReload
  THEN /\ files' = fs
       /\ UNCHANGED <<timers, burst>>
  ELSE /\ files' = IF path \notin fs THEN addPath(fs, path, added) ELSE fs
       /\ timers' = Append(timers, Timer(path, timers = <<>> \/ JoinsBurst(path)))
       /\ burst' = IF timers = <<>>
                   THEN [path |-> path, notes |-> 1, reloads |-> 0, since |-> FALSE]
                   ELSE IF JoinsBurst(path)
                        THEN [burst EXCEPT !.notes = @ + 1, !.since = FALSE]
                        ELSE [burst EXCEPT !.since = FALSE]

\* variant: the roots are torn down after the load
ReloadRoots_loadThenTeardown(loaded) == deleteLater(load(rootObjects, loaded))

\* lines 93-113: teardown, load and verification
ReloadRoots(loaded) == load(deleteLater(rootObjects), loaded)

\* line 103: the cache as the load finds it
ReloadCache == clearComponentCache(componentCache)

ReloadResult(roots) == IF roots = <<>> THEN "failure" ELSE "success"

\* lines 78-122
reloadQml(path, loaded) ==
  LET saved == saveContextProperties(g_state)
      roots == ReloadRoots(loaded)
  IN /\ rootObjects' = roots
     /\ g_state' = IF ReloadResult(roots) = "success"
                   THEN restoreContextProperties(g_state, saved)
                   ELSE g_state
     /\ componentCache' = Cached(ReloadCache, path, loaded)
     /\ wOp' = [WOp("reloadQml", path, loaded, FALSE, FALSE, ReloadResult(roots))
                 EXCEPT !.fromSource = FromSource(ReloadCache, path)]

\* qmlbridge.cpp lines 144-176
Java_qml_Bridge_loadQml(path, loaded, added) ==
  LET roots == load(rootObjects, loaded) IN
  /\ rootObjects' = roots
  /\ componentCache' = Cached(componentCache, path, loaded)
  /\ IF roots = <<>>
     THEN /\ UNCHANGED <<files, m_currentQmlPath>>
          /\ wOp' = [WOp("loadQml", path, loaded, FALSE, FALSE, "failure")
                      EXCEPT !.fromSource = FromSource(componentCache, path)]
     ELSE /\ watchFile(path, added)
          /\ wOp' = [WOp("loadQml", path, loaded, added /\ path \notin files, FALSE,
                         "success")
                      EXCEPT !.fromSource = FromSource(componentCache, path)]

LoadQml ==
  /\ \E path \in Paths, loaded, added \in BOOLEAN :
       /\ loaded => Len(rootObjects) < MaxRoots
       /\ Java_qml_Bridge_loadQml(path, loaded, added)
  /\ UNCHANGED <<m_autoReload, timers, g_state, burst>>
  /\ UNCHANGED otherThanW

WatchFile ==
  /\ \E path \in Paths, added \in BOOLEAN :
       /\ watchFile(path, added)
       /\ wOp' = WOp("watchFile", path, FALSE, added /\ path \notin files, FALSE, "none")
  /\ UNCHANGED <<m_autoReload, timers, rootObjects, g_state, componentCache, burst>>
  /\ UNCHANGED otherThanW

UnwatchFile ==
  /\ \E path \in Paths :
       /\ unwatchFile(path)
       /\ wOp' = WOp("unwatchFile", path, FALSE, FALSE, FALSE, "none")
  /\ UNCHANGED <<m_autoReload, m_currentQmlPath, timers, rootObjects, g_state,
                 componentCache, burst>>
  /\ UNCHANGED otherThanW

\* qmlbridge.cpp lines 383-392; a burst interrupted by a switch-off is no
\* burst under auto-reload
SetAutoReload ==
  /\ \E enabled \in BOOLEAN :
       /\ setAutoReload(enabled)
       /\ wOp' = WOp("setAutoReload", NoPath, FALSE, FALSE, FALSE, "none")
       /\ IF enabled
          THEN UNCHANGED <<timers, burst>>
          ELSE /\ burst' = NoBurst
               /\ timers' = [i \in 1..Len(timers) |-> [timers[i] EXCEPT !.inBurst = FALSE]]
  /\ UNCHANGED <<files, m_currentQmlPath, rootObjects, g_state, componentCache>>
  /\ UNCHANGED otherThanW

\* QFileSystemWatcher reports a change of a watched file; it may stop
\* watching the path (the file was replaced or removed) before the slot runs
FileChanged ==
  /\ \E path \in files, dropped, added \in BOOLEAN :
       LET fs == IF dropped THEN files \ {path} ELSE files IN
       /\ m_autoReload => Len(timers) < MaxPending
       /\ onFileChanged(path, fs, added)
       /\ wOp' = WOp("onFileChanged", path, FALSE,
                     m_autoReload /\ dropped /\ added, dropped, "none")
  /\ UNCHANGED <<m_autoReload, m_currentQmlPath, rootObjects, g_state, componentCache>>
  /\ UNCHANGED otherThanW

\* variant: a reload whose load gave no root is tried again
TimerFires_retriesFailure ==
  /\ timers # <<>>
  /\ \E loaded \in BOOLEAN :
       /\ loaded => Len(rootObjects) < MaxRoots
       /\ reloadQml(Head(timers).path, loaded)
       /\ timers' = IF loaded THEN Tail(timers) ELSE Append(Tail(timers), Head(timers))
  /\ burst' = [burst EXCEPT !.reloads = IF Head(timers).inBurst THEN @ + 1 ELSE @,
                            !.since = ReloadedSinceNote(Head(timers).path)]
  /\ UNCHANGED <<m_autoReload, files, m_currentQmlPath>>
  /\ UNCHANGED otherThanW

\* the oldest timer fires: lines 73-75
TimerFires ==
  /\ timers # <<>>
  /\ \E loaded \in BOOLEAN :
       /\ loaded => Len(rootObjects) < MaxRoots
       /\ reloadQml(Head(timers).path, loaded)
  /\ timers' = Tail(timers)
  /\ burst' = [burst EXCEPT !.reloads = IF Head(timers).inBurst THEN @ + 1 ELSE @,
                            !.since = ReloadedSinceNote(Head(timers).path)]
  /\ UNCHANGED <<m_autoReload, files, m_currentQmlPath>>
  /\ UNCHANGED otherThanW

\* the event loop deletes the objects handed to deleteLater; the engine takes a
\* destroyed root off its list
DeferredDelete ==
  /\ \E i \in 1..Len(rootObjects) : rootObjects[i] = Doomed
  /\ rootObjects' = SelectSeq(rootObjects, LAMBDA o : o = Live)
  /\ wOp' = WOp("deferredDelete", NoPath, FALSE, FALSE, FALSE, "none")
  /\ UNCHANGED <<m_autoReload, files, m_currentQmlPath, timers, g_state,
                 componentCache, burst>>
  /\ UNCHANGED otherThanW

\* qmlbridge.cpp lines 188-203
Java_qml_Bridge_setContextProperty ==
  /\ \E name \in PropNames, value \in PropValues : setProp(name, value)
  /\ wOp' = WOp("setContextProperty", NoPath, FALSE, FALSE, FALSE, "none")
  /\ UNCHANGED <<m_autoReload, files, m_currentQmlPath, timers, rootObjects,
                 componentCache, burst>>
  /\ UNCHANGED otherThanW

WInit ==
  /\ m_autoReload = TRUE
  /\ files = {}
  /\ m_currentQmlPath = NoPath
  /\ timers = <<>>
  /\ rootObjects = <<>>
  /\ g_state = <<>>
  /\ componentCache = {}
  /\ burst = NoBurst
  /\ wOp = WOp("none", NoPath, FALSE, FALSE, FALSE, "none")

(***************************************************************************)
(* The model registry g_models and its entry points (qmlbridge.cpp)        *)
(***************************************************************************)
\* the names the entry points are called with; createModel is called with the
\* first only
ModelNames == {"items", "other"}
CreatedNames == {"items"}

\* the payloads the registry is called with: no element or one, or no array
RegistryDocs == {doc \in JsonDocs : Len(doc.elems) <= 1}

ROp(op, name, ret) == [op |-> op, name |-> name, ret |-> ret]

\* g_models.value(name, nullptr)
ModelFound(name) == name \in g_models

\* lines 296-321; the new JvmListModel is in its constructed state
Java_qml_Bridge_createModel(name) ==
  /\ rOp' = ROp("createModel", name, 0)
  /\ IF name \in g_models
     THEN UNCHANGED <<g_models, lmVars>>
     ELSE /\ g_models' = g_models \cup {name}
          /\ m_items' = <<>>
          /\ m_roleNames' = <<>>
          /\ m_roleIds' = <<>>
          /\ m_nextRoleId' = FirstRoleId
          /\ lmOp' = [op |-> "none", doc |-> NoDoc, nextBefore |-> FirstRoleId,
                      prevOp |-> "none"]

\* variant: the call goes to the model whether or not the name is known
Java_qml_Bridge_setModelData_noLookup(name, doc) ==
  /\ rOp' = ROp("setModelData", name, 0)
  /\ UNCHANGED g_models
  /\ setJsonData(doc)

\* lines 326-343
Java_qml_Bridge_setModelData(name, doc) ==
  /\ rOp' = ROp("setModelData", name, 0)
  /\ UNCHANGED g_models
  /\ IF ~ModelFound(name) THEN UNCHANGED lmVars ELSE setJsonData(doc)

\* lines 348-361
Java_qml_Bridge_clearModel(name) ==
  /\ rOp' = ROp("clearModel", name, 0)
  /\ UNCHANGED g_models
  /\ IF ~ModelFound(name) THEN UNCHANGED lmVars ELSE clear

\* lines 366-378
Java_qml_Bridge_getModelCount(name) ==
  /\ rOp' = ROp("getModelCount", name, IF ~ModelFound(name) THEN 0 ELSE count)
  /\ UNCHANGED <<g_models, lmVars>>

CreateModel ==
  /\ \E name \in CreatedNames : Java_qml_Bridge_createModel(name)
  /\ UNCHANGED <<sfVars, wVars, tVars, eVars>>

SetModelData ==
  /\ \E name \in ModelNames, doc \in RegistryDocs : Java_qml_Bridge_setModelData(name, doc)
  /\ UNCHANGED <<sfVars, wVars, tVars, eVars>>

ClearModel ==
  /\ \E name \in ModelNames : Java_qml_Bridge_clearModel(name)
  /\ UNCHANGED <<sfVars, wVars, tVars, eVars>>

GetModelCount ==
  /\ \E name \in ModelNames : Java_qml_Bridge_getModelCount(name)
  /\ UNCHANGED <<sfVars, wVars, tVars, eVars>>

RInit ==
  /\ g_models = {}
  /\ rOp = ROp("none", NoName, 0)

NextRegistry == CreateModel \/ SetModelData \/ ClearModel \/ GetModelCount

(***************************************************************************)
(* The entry points called on a JVM thread while the UI thread reads the   *)
(* model: setJsonData and clear run on the calling thread, statement by    *)
(* statement, without a lock.                                              *)
(***************************************************************************)
\* what a reader gets from count(), data() and roleNames()
View == [items |-> m_items, roleIds |-> m_roleIds]

NoCall == [op |-> "none", doc |-> NoDoc, items |-> <<>>,
           roles |-> [ids |-> <<>>, names |-> <<>>, next |-> FirstRoleId]]

\* history: the model as the call in progress found it and as it leaves it
BeforeView == [items |-> call.items, roleIds |-> call.roles.ids]

AfterView ==
  IF call.op = "clear" THEN [items |-> <<>>, roleIds |-> call.roles.ids]
  ELSE LET r == ConvertItems(call.doc.elems, 1, call.roles, <<>>)
       IN [items |-> r.items, roleIds |-> r.roles.ids]

\* jvmlistmodel.cpp lines 43-60: parse; a document that is no array returns
BeginSetJsonData(doc) ==
  /\ pc = "idle"
  /\ IF doc.kind # "array"
     THEN UNCHANGED <<pc, idx, newItemsLocal, call>>
     ELSE /\ pc' = "loop"
          /\ idx' = 1
          /\ newItemsLocal' = <<>>
          /\ call' = [op |-> "setJsonData", doc |-> doc, items |-> m_items, roles |-> Roles]
  /\ UNCHANGED lmVars

\* lines 62-79: one turn of the loop; updateRoleNames writes the role tables
LoopTurn ==
  /\ pc = "loop"
  /\ IF idx > Len(call.doc.elems)
     THEN /\ pc' = "reset"
          /\ UNCHANGED <<idx, newItemsLocal, m_roleNames, m_roleIds, m_nextRoleId>>
     ELSE /\ idx' = idx + 1
          /\ UNCHANGED pc
          /\ IF ~call.doc.elems[idx].isObject
             THEN UNCHANGED <<newItemsLocal, m_roleNames, m_roleIds, m_nextRoleId>>
             ELSE LET item == toVariantMap(call.doc.elems, idx)
                      roles == updateRoleNames(Roles, item)
                  IN /\ newItemsLocal' = Append(newItemsLocal, item)
                     /\ m_roleIds' = roles.ids
                     /\ m_roleNames' = roles.names
                     /\ m_nextRoleId' = roles.next
  /\ UNCHANGED <<m_items, lmOp, call>>

\* lines 82-87: the rows are replaced
ResetModel ==
  /\ pc = "reset"
  /\ m_items' = newItemsLocal
  /\ pc' = "idle"
  /\ newItemsLocal' = <<>>
  /\ UNCHANGED <<idx, call, m_roleNames, m_roleIds, m_nextRoleId, lmOp>>

\* lines 90-93: clear is entered
BeginClear ==
  /\ pc = "idle"
  /\ pc' = "clear"
  /\ call' = [op |-> "clear", doc |-> NoDoc, items |-> m_items, roles |-> Roles]
  /\ UNCHANGED <<idx, newItemsLocal, lmVars>>

\* lines 94-96: the rows are removed
EndClear ==
  /\ pc = "clear"
  /\ m_items' = <<>>
  /\ pc' = "idle"
  /\ UNCHANGED <<idx, newItemsLocal, call, m_roleNames, m_roleIds, m_nextRoleId, lmOp>>

\* a JVM thread calls Java_qml_Bridge_setModelData or Java_qml_Bridge_clearModel
\* (qmlbridge.cpp lines 326-361) for a model in the registry
ThreadSetModelData ==
  /\ \E name \in g_models, doc \in JsonDocs : BeginSetJsonData(doc)
  /\ UNCHANGED <<seen, sfVars, wVars, rVars, eVars>>

ThreadLoopTurn == LoopTurn /\ UNCHANGED <<seen, sfVars, wVars, rVars, eVars>>

ThreadResetModel == ResetModel /\ UNCHANGED <<seen, sfVars, wVars, rVars, eVars>>

ThreadClearModel ==
  /\ \E name \in g_models : BeginClear
  /\ UNCHANGED <<seen, sfVars, wVars, rVars, eVars>>

ThreadEndClear == EndClear /\ UNCHANGED <<seen, sfVars, wVars, rVars, eVars>>

\* how a view compares with the model before and after the call in progress
Classify(view) ==
  IF view = BeforeView THEN "before"
  ELSE IF view = AfterView THEN "after"
  ELSE "partial"

\* the UI thread reads count(), data() and roleNames() (jvmlistmodel.cpp lines
\* 16-41). A read while another thread is inside setJsonData or clear is a data
\* race: it gets the members as they stand or, when the other thread is at the
\* statement that writes the rows, anything at all (torn)
UiRead ==
  /\ g_models # {}
  /\ \/ seen' = [during |-> pc # "idle", kind |-> IF pc = "idle" THEN "after" ELSE Classify(View)]
     \/ /\ pc \in {"reset", "clear"}
        /\ seen' = [during |-> TRUE, kind |-> "torn"]
  /\ UNCHANGED <<pc, idx, newItemsLocal, call, lmVars, sfVars, wVars, rVars, eVars>>

TInit ==
  /\ pc = "idle"
  /\ idx = 1
  /\ newItemsLocal = <<>>
  /\ call = NoCall
  /\ seen = [during |-> FALSE, kind |-> "none"]

NextThreads ==
  CreateModel \/ ThreadSetModelData \/ ThreadLoopTurn \/ ThreadResetModel \/
  ThreadClearModel \/ ThreadEndClear \/ UiRead

(***************************************************************************)
(* Java_qml_Bridge_registerSignalHandler on a thread of the managed        *)
(* runtime beside callJavaHandler on the UI thread, statement by statement.*)
(***************************************************************************)
NoEmit == [name |-> NoName, args |-> <<>>, pinned |-> FALSE]
NoRegister == [name |-> NoName, handler |-> NULL]

\* signalforwarder.cpp lines 174-183: find; `it` stays in hand
LookupHandler(signalName, args) ==
  /\ sfOp' = EmitOp("ui", signalName, args)
  /\ IF m_handlers[signalName] = NoEntry
     THEN /\ EmitReturn(<<>>, attached, pendingException, FALSE)
          /\ emitting' = NoEmit
     ELSE /\ emitting' = [name |-> signalName, args |-> variantsToStrings(args),
                          pinned |-> globalRefs[m_handlers[signalName]] # Free]
          /\ calls' = <<>>
          /\ UNCHANGED <<m_handlers, globalRefs, attached, pendingException,
                         crashed, registered, pinnedFor>>

\* lines 185-230: it->second is read at the call; through an iterator to an
\* erased entry the behaviour is undefined (nothing is called, or the process
\* dies)
InvokeLookedUp ==
  /\ emitting' = NoEmit
  /\ UNCHANGED sfOp
  /\ IF m_handlers[emitting.name] = NoEntry
     THEN \E crash \in BOOLEAN : EmitReturn(<<>>, attached, pendingException, crash)
     ELSE \E e \in ObtainEnv("ui") :
            IF ~e.ok
            THEN EmitReturn(<<>>, e.attached, pendingException, FALSE)
            ELSE InvokeHandler("ui", m_handlers[emitting.name], emitting.args, e.attached)

\* qmlbridge.cpp lines 265-282 and signalforwarder.cpp lines 88-103: the null
\* checks, then the old handle is unpinned
UnpinOld(signalName, handler) ==
  IF handler = NULL
  THEN /\ RegisterReturn(signalName, handler, FALSE, m_handlers, globalRefs, FALSE)
       /\ registering' = NoRegister
  ELSE \E del \in (IF m_handlers[signalName] # NoEntry
                   THEN DeleteGlobalRef(globalRefs, m_handlers[signalName])
                   ELSE {[refs |-> globalRefs, crash |-> FALSE]}) :
         /\ globalRefs' = del.refs
         /\ crashed' = del.crash
         /\ pinnedFor' = PinnedForAfter(del.refs)
         /\ sfOp' = RegisterOp(signalName, handler, FALSE)
         /\ registering' = [name |-> signalName, handler |-> handler]
         /\ UNCHANGED <<m_handlers, attached, pendingException, calls, registered>>

\* signalforwarder.cpp lines 105-117: the new handle is pinned and stored
PinAndStore ==
  /\ registering' = NoRegister
  /\ \E new \in NewGlobalRef(globalRefs, registering.handler) :
       IF new.ref = NullRef
       THEN RegisterReturn(registering.name, registering.handler, FALSE,
                           m_handlers, new.refs, FALSE)
       ELSE RegisterReturn(registering.name, registering.handler, TRUE,
                           [m_handlers EXCEPT ![registering.name] = new.ref],
                           new.refs, FALSE)

EmitLookup ==
  /\ ~crashed
  /\ emitting = NoEmit
  /\ \E n \in SignalNames, a \in ArgLists : LookupHandler(n, a)
  /\ UNCHANGED <<registering, lmVars, wVars, rVars, tVars>>

EmitInvoke ==
  /\ ~crashed
  /\ emitting # NoEmit
  /\ InvokeLookedUp
  /\ UNCHANGED <<registering, lmVars, wVars, rVars, tVars>>

RegisterUnpin ==
  /\ ~crashed
  /\ registering = NoRegister
  /\ \E n \in SignalNames, h \in Handlers \cup {NULL} : UnpinOld(n, h)
  /\ UNCHANGED <<emitting, lmVars, wVars, rVars, tVars>>

RegisterPin ==
  /\ ~crashed
  /\ registering # NoRegister
  /\ PinAndStore
  /\ UNCHANGED <<emitting, lmVars, wVars, rVars, tVars>>

EInit ==
  /\ emitting = NoEmit
  /\ registering = NoRegister

NextEmitThreads == EmitLookup \/ EmitInvoke \/ RegisterUnpin \/ RegisterPin \/ Unregister

Init == SfInit /\ LmInit /\ WInit /\ RInit /\ TInit /\ EInit

SpecEmitThreads == Init /\ [][NextEmitThreads]_vars

SpecThreads == Init /\ [][NextThreads]_vars

SpecRegistry == Init /\ [][NextRegistry]_vars

NextWatcher ==
  LoadQml \/ WatchFile \/ UnwatchFile \/ SetAutoReload \/ FileChanged \/
  TimerFires \/ DeferredDelete \/ Java_qml_Bridge_setContextProperty

SpecWatcher == Init /\ [][NextWatcher]_vars

\* an armed single-shot timer fires once the event loop runs
SpecWatcherFair == SpecWatcher /\ WF_vars(TimerFires)

NextForwarder == Register \/ BridgeRegister \/ Unregister \/ Emit

SpecForwarder == Init /\ [][NextForwarder]_vars

NextListModel == SetData \/ Clear

SpecListModel == Init /\ [][NextListModel]_vars

(***************************************************************************)
(* Properties of the signal forwarder (SpecForwarder).                     *)
(***************************************************************************)
PinnedSlotsFor(n) == {s \in Slots : globalRefs[s] # Free /\ pinnedFor[s] = n}

IsEmitStep == sfOp'.op = "emit"

\* C1: for every signal name at most one handle is pinned; whenever the name
\* has an entry, the entry's handle is pinned and pins the handler of the most
\* recent register; no handle pinned for the name outlives its replacement or
\* its unregistration.
C1_OneLiveHandlePerName ==
  ~crashed =>
    \A n \in SignalNames :
      /\ Cardinality(PinnedSlotsFor(n)) <= 1
      /\ m_handlers[n] # NoEntry =>
           /\ globalRefs[m_handlers[n]] = registered[n]
           /\ pinnedFor[m_handlers[n]] = n
      /\ \A s \in PinnedSlotsFor(n) : m_handlers[n] = s

\* C2: emitSignal on a name without an entry invokes no handler, does not
\* attach the calling thread, and changes neither the table nor the global
\* references; it returns normally.
C2_EmitUnregisteredIsNoop ==
  [][(IsEmitStep /\ m_handlers[sfOp'.name] = NoEntry) =>
       /\ calls' = <<>>
       /\ attached' = attached
       /\ m_handlers' = m_handlers
       /\ globalRefs' = globalRefs
       /\ pendingException' = pendingException
       /\ ~crashed']_vars

\* an emit on a name without an entry, from a thread that is not attached,
\* while another name has a pinned handler
C2_Witness ==
  /\ sfOp.op = "emit"
  /\ m_handlers[sfOp.name] = NoEntry
  /\ sfOp.thread \notin attached
  /\ calls = <<>>
  /\ \E n \in SignalNames : m_handlers[n] # NoEntry /\ globalRefs[m_handlers[n]] \in Handlers

\* C3: while H is the registered handler of a name, an emitSignal on that name
\* whose thread has a JNIEnv invokes H exactly once, with the textual forms of
\* the arguments in order, and invokes nothing else.
C3_EmitInvokesHandlerWithTexts ==
  [][(IsEmitStep /\ registered[sfOp'.name] # NULL /\ sfOp'.thread \in attached') =>
       /\ ~crashed'
       /\ Len(calls') = 1
       /\ calls'[1].handler = registered[sfOp'.name]
       /\ calls'[1].args = variantsToStrings(sfOp'.args)]_vars

\* C4: when the invoked handler throws, emitSignal returns with no exception
\* pending on the calling thread, the table and the pin are unchanged, and the
\* next emitSignal on the same name invokes the same handler again.
C4_HandlerFaultStopsAtEmit ==
  [][/\ (IsEmitStep /\ Len(calls') = 1 /\ calls'[1].threw) =>
          /\ ~crashed'
          /\ sfOp'.thread \notin pendingException'
          /\ pendingException' = pendingException
          /\ m_handlers' = m_handlers
          /\ globalRefs' = globalRefs
          /\ registered' = registered
          /\ m_handlers'[sfOp'.name] # NoEntry
          /\ globalRefs'[m_handlers'[sfOp'.name]] = calls'[1].handler
     /\ (/\ sfOp.op = "emit" /\ Len(calls) = 1 /\ calls[1].threw
         /\ IsEmitStep /\ sfOp'.name = sfOp.name /\ sfOp'.thread \in attached') =>
          /\ Len(calls') = 1
          /\ calls'[1].handler = calls[1].handler]_vars

\* an emit whose handler threw
C4_Witness ==
  /\ sfOp.op = "emit"
  /\ Len(calls) = 1
  /\ calls[1].threw
  /\ calls[1].handler \in Handlers
  /\ ~crashed

\* C5: registerHandler with a null handler returns false, pins nothing and
\* leaves the table, the pins and the registration history as they were.
C5_NullHandlerRejected ==
  [][(sfOp'.op = "register" /\ sfOp'.handler = NULL) =>
       /\ sfOp'.ret = FALSE
       /\ m_handlers' = m_handlers
       /\ globalRefs' = globalRefs
       /\ registered' = registered
       /\ pinnedFor' = pinnedFor
       /\ ~crashed']_vars

\* a null register on a name whose earlier handler is still registered and pinned
C5_Witness ==
  /\ sfOp.op = "register"
  /\ sfOp.handler = NULL
  /\ ~sfOp.ret
  /\ m_handlers[sfOp.name] # NoEntry
  /\ registered[sfOp.name] \in Handlers
  /\ globalRefs[m_handlers[sfOp.name]] = registered[sfOp.name]

(***************************************************************************)
(* Properties of the list model (SpecListModel).                           *)
(***************************************************************************)
IsSetArrayStep == lmOp'.op = "setJsonData" /\ lmOp'.doc.kind = "array"

NewNames == DOMAIN m_roleIds' \ DOMAIN m_roleIds

ObjectIndexes(elems) == {i \in 1..Len(elems) : elems[i].isObject}

\* the index of the first object of the array that has the member f
FirstRecord(elems, f) ==
  CHOOSE i \in ObjectIndexes(elems) :
    /\ f \in Range(elems[i].keys)
    /\ \A j \in ObjectIndexes(elems) : j < i => f \notin Range(elems[j].keys)

\* the place of member f in the text of object i
TextPlace(elems, i, f) == CHOOSE j \in 1..Len(elems[i].keys) : elems[i].keys[j] = f

\* C6: an assigned id is kept for ever, no id goes to two names, the counter
\* never decreases, it is one past the largest id assigned so far, and the
\* names first seen in a call get the ids from the counter on, without gaps,
\* whatever mix of setJsonData and clear came before.
C6_FieldIdsAppendOnly ==
  [][/\ \A k \in DOMAIN m_roleIds : k \in DOMAIN m_roleIds' /\ m_roleIds'[k] = m_roleIds[k]
     /\ \A k, l \in DOMAIN m_roleIds' : m_roleIds'[k] = m_roleIds'[l] => k = l
     /\ m_nextRoleId' >= m_nextRoleId
     /\ \A k \in DOMAIN m_roleIds : m_roleIds[k] < m_nextRoleId
     /\ DOMAIN m_roleIds # {} => \E k \in DOMAIN m_roleIds : m_roleIds[k] = m_nextRoleId - 1
     /\ {m_roleIds'[k] : k \in NewNames} = m_nextRoleId .. (m_nextRoleId' - 1)]_vars

\* a setJsonData right after a clear gives a new name the second id
C6_Witness ==
  /\ lmOp.op = "setJsonData"
  /\ lmOp.prevOp = "clear"
  /\ lmOp.nextBefore = FirstRoleId + 1
  /\ m_nextRoleId = FirstRoleId + 2
  /\ Cardinality(DOMAIN m_roleIds) = 2

\* C7 as claimed: of two names that get their ids in the same call, the one
\* met first in the text of the payload (earlier object, or earlier place in
\* the same object) gets the smaller id.
C7_FirstSeenInTextOrder ==
  [][IsSetArrayStep =>
       \A f, g \in NewNames :
         LET e == lmOp'.doc.elems
             rf == FirstRecord(e, f)
             rg == FirstRecord(e, g)
         IN (rf < rg \/ (rf = rg /\ TextPlace(e, rf, f) < TextPlace(e, rg, g)))
              => m_roleIds'[f] < m_roleIds'[g]]_vars

\* C7 as amended: the name met in an earlier object gets the smaller id, and of
\* two names first met in the same object the one that sorts first does.
C7_FirstSeenByRecordThenKeyOrder ==
  [][IsSetArrayStep =>
       \A f, g \in NewNames :
         LET e == lmOp'.doc.elems
             rf == FirstRecord(e, f)
             rg == FirstRecord(e, g)
         IN (rf < rg \/ (rf = rg /\ KeyLess(f, g)))
              => m_roleIds'[f] < m_roleIds'[g]]_vars

\* two names got their ids from one object that lists them against key order
C7_Witness ==
  /\ lmOp.op = "setJsonData"
  /\ lmOp.doc.kind = "array"
  /\ lmOp.nextBefore = FirstRoleId
  /\ Len(lmOp.doc.elems) >= 1
  /\ lmOp.doc.elems[1] = [isObject |-> TRUE, keys |-> <<TextA, <<>>>>]
  /\ DOMAIN m_roleIds = {<<>>, TextA}
  /\ m_roleIds[<<>>] < m_roleIds[TextA]

\* C8: after setJsonData of an array the rows are the objects of the array, in
\* order and with their members' values, count() is their number, every member
\* name of every object has an id (also of objects after a non-object), and
\* the names that got an id in the call are member names of objects.
C8_RowsAreTheObjectRecords ==
  [][IsSetArrayStep =>
       LET e == lmOp'.doc.elems
           objs == ObjectIndexes(e)
           before(i) == Cardinality({j \in objs : j < i})
       IN /\ Len(m_items') = Cardinality(objs)
          /\ \A i \in objs :
               /\ DOMAIN m_items'[before(i) + 1] = Range(e[i].keys)
               /\ \A j \in 1..Len(e[i].keys) :
                    m_items'[before(i) + 1][e[i].keys[j]] = MemberValue(i, j)
               /\ Range(e[i].keys) \subseteq DOMAIN m_roleIds'
          /\ NewNames \subseteq UNION {Range(e[i].keys) : i \in objs}]_vars

\* a non-object that mentions "a", followed by an object with the member "":
\* one row, and no id for "a"
C8_Witness ==
  /\ lmOp.op = "setJsonData"
  /\ lmOp.doc.kind = "array"
  /\ lmOp.doc.elems = <<[isObject |-> FALSE, keys |-> <<TextA>>],
                        [isObject |-> TRUE, keys |-> <<<<>>>>]>>
  /\ count = 1
  /\ DOMAIN m_roleIds = {<<>>}

\* C9: setJsonData of a document that is no array leaves the rows, the two
\* role tables and the counter as they were.
C9_NonArrayRejected ==
  [][(lmOp'.op = "setJsonData" /\ lmOp'.doc.kind # "array") =>
       /\ m_items' = m_items
       /\ m_roleIds' = m_roleIds
       /\ m_roleNames' = m_roleNames
       /\ m_nextRoleId' = m_nextRoleId]_vars

\* text that is no JSON was given to a model that shows a row
C9_Witness ==
  /\ lmOp.op = "setJsonData"
  /\ lmOp.doc.kind = "invalid"
  /\ lmOp.prevOp = "setJsonData"
  /\ count = 1
  /\ m_nextRoleId > FirstRoleId

\* C10: clear empties the rows and leaves the role tables and the counter as
\* they were; and a setJsonData that follows a clear made while no id was
\* assigned gives the ids a freshly constructed model gives.
C10_ClearKeepsFieldIds ==
  [][/\ lmOp'.op = "clear" =>
          /\ m_items' = <<>>
          /\ m_roleIds' = m_roleIds
          /\ m_roleNames' = m_roleNames
          /\ m_nextRoleId' = m_nextRoleId
     /\ (IsSetArrayStep /\ lmOp.op = "clear" /\ lmOp.nextBefore = FirstRoleId) =>
          LET fresh == ConvertItems(lmOp'.doc.elems, 1,
                                    [ids |-> <<>>, names |-> <<>>, next |-> FirstRoleId],
                                    <<>>).roles
          IN /\ m_roleIds' = fresh.ids
             /\ m_roleNames' = fresh.names
             /\ m_nextRoleId' = fresh.next]_vars

\* a clear that emptied a model with rows and assigned ids
C10_Witness ==
  /\ lmOp.op = "clear"
  /\ lmOp.prevOp = "setJsonData"
  /\ count = 0
  /\ m_nextRoleId = FirstRoleId + 2
  /\ Cardinality(DOMAIN m_roleNames) = 2

\* C28: the table from names to ids and the table from ids to names are
\* inverse bijections, the ids are exactly those from the first id up to the
\* counter, and there are as many as the counter has advanced.
C28_RoleTablesAreInverse ==
  /\ DOMAIN m_roleNames = FirstRoleId .. (m_nextRoleId - 1)
  /\ \A k \in DOMAIN m_roleIds :
       m_roleIds[k] \in DOMAIN m_roleNames /\ m_roleNames[m_roleIds[k]] = k
  /\ \A r \in DOMAIN m_roleNames :
       m_roleNames[r] \in DOMAIN m_roleIds /\ m_roleIds[m_roleNames[r]] = r
  /\ Cardinality(DOMAIN m_roleIds) = m_nextRoleId - FirstRoleId

\* two names got their ids in two calls, "a" before ""
C28_Witness ==
  /\ lmOp.op = "setJsonData"
  /\ DOMAIN m_roleIds = FieldNames
  /\ m_roleNames = (FirstRoleId :> TextA) @@ (FirstRoleId + 1 :> <<>>)
  /\ lmOp.nextBefore = FirstRoleId + 1

(***************************************************************************)
(* Properties of reads of the list model.                                  *)
(***************************************************************************)
\* C11: for every row index and every field name, get returns the value the
\* row stores under the field when the index is in range and the row has the
\* field, and absent when the index is negative or not below count(), the
\* field has no id, or the row lacks the field.
C11_GetReturnsStoredValue ==
  \A row \in -1 .. count : \A f \in FieldNames :
    get(row, f) =
      IF row >= 0 /\ row < count /\ f \in DOMAIN m_roleIds /\ f \in DOMAIN m_items[row + 1]
      THEN m_items[row + 1][f]
      ELSE Absent

(***************************************************************************)
(* Properties of the live-reload watcher (SpecWatcher).                    *)
(***************************************************************************)
IsReloadStep == wOp'.op = "reloadQml"

IsNotificationStep == wOp'.op = "onFileChanged"

BurstTimersPending == \E i \in 1..Len(timers) : timers[i].inBurst

\* C12: the notifications of one burst (auto-reload on, same path, all before
\* the first reload fires) lead to one reload: never more than one, and one
\* once the burst's timers have fired.
C12_BurstProducesOneReload ==
  burst.notes >= 1 =>
    /\ burst.reloads <= 1
    /\ ~BurstTimersPending => burst.reloads = 1

\* C13: a notification handled while auto-reload is off arms no timer, tears
\* nothing down, loads nothing, and leaves the flag, the armed timers and the
\* recorded path as they were; the watch set stays as the notifying mechanism
\* left it.
C13_DisabledNotificationIgnored ==
  [][(IsNotificationStep /\ ~m_autoReload) =>
       /\ timers' = timers
       /\ rootObjects' = rootObjects
       /\ m_autoReload' = m_autoReload
       /\ m_currentQmlPath' = m_currentQmlPath
       /\ files' = (IF wOp'.dropped THEN files \ {wOp'.path} ELSE files)]_vars

\* a notification was ignored while a reload was pending
C13_Witness ==
  /\ wOp.op = "onFileChanged"
  /\ ~m_autoReload
  /\ timers # <<>>
  /\ rootObjects # <<>>

\* C14: a reload whose load step produces no root object is classified as a
\* failure, whether or not root objects of the previous load were listed.
C14_NoRootFromLoadIsFailure ==
  [][(IsReloadStep /\ ~wOp'.loaded) => wOp'.result = "failure"]_vars

\* C15: a reload whose load yields no root leaves the auto-reload flag, the
\* watch set and the recorded path as they were and arms no timer; the next
\* notification for the path, with auto-reload on, arms a timer for it.
C15_FailedReloadLeavesWatcherArmed ==
  [][/\ (IsReloadStep /\ ~wOp'.loaded) =>
          /\ m_autoReload' = m_autoReload
          /\ files' = files
          /\ m_currentQmlPath' = m_currentQmlPath
          /\ timers' = Tail(timers)
     /\ (wOp.op = "reloadQml" /\ ~wOp.loaded /\ IsNotificationStep
           /\ wOp'.path = wOp.path /\ m_autoReload) =>
          /\ Len(timers') = Len(timers) + 1
          /\ timers'[Len(timers')].path = wOp.path]_vars

\* a failed reload has run; the path is watched and nothing is pending
C15_Witness ==
  /\ wOp.op = "reloadQml"
  /\ ~wOp.loaded
  /\ wOp.result = "failure"
  /\ m_autoReload
  /\ wOp.path \in files
  /\ timers = <<>>

WatcherOps == {"watchFile", "unwatchFile", "setAutoReload", "onFileChanged", "reloadQml"}

\* C16: no step of the watcher changes the contents of the state object.
C16_WatcherLeavesStateObject ==
  [][wOp'.op \in WatcherOps => g_state' = g_state]_vars

\* a reload succeeded while the state object held a property
C16_Witness ==
  /\ wOp.op = "reloadQml"
  /\ wOp.result = "success"
  /\ wOp.loaded
  /\ "title" \in DOMAIN g_state

\* C17: watchFile of a path that is already watched, and a watchFile whose
\* addPath fails, change neither the watch set nor the recorded path nor
\* anything else of the watcher.
C17_WatchIdempotentAndFailureHarmless ==
  [][(wOp'.op = "watchFile" /\ (wOp'.path \in files \/ ~wOp'.added)) =>
       /\ files' = files
       /\ m_currentQmlPath' = m_currentQmlPath
       /\ m_autoReload' = m_autoReload
       /\ timers' = timers
       /\ rootObjects' = rootObjects]_vars

\* watchFile of a watched path while another path is the recorded one
C17_Witness ==
  /\ wOp.op = "watchFile"
  /\ ~wOp.added
  /\ wOp.path \in files
  /\ m_currentQmlPath \in files \ {wOp.path}

\* C20: loadQml returns false whenever the load produces no root object, also
\* when root objects of an earlier load are listed, and it starts watching the
\* path only when it returns true.
C20_LoadQmlFalseWhenNoRoot ==
  [][wOp'.op = "loadQml" =>
       /\ ~wOp'.loaded => wOp'.result = "failure"
       /\ wOp'.result = "failure" =>
            /\ files' = files
            /\ m_currentQmlPath' = m_currentQmlPath]_vars

(***************************************************************************)
(* Properties of the model registry (SpecRegistry).                        *)
(***************************************************************************)
\* C19: setModelData, clearModel and getModelCount with a name that is not in
\* the registry create no model, leave the rows and the field ids of the
\* existing model as they are, and getModelCount returns 0.
C19_UnknownModelNameIsNoop ==
  [][(rOp'.op \in {"setModelData", "clearModel", "getModelCount"}
        /\ rOp'.name \notin g_models) =>
       /\ g_models' = g_models
       /\ m_items' = m_items
       /\ m_roleIds' = m_roleIds
       /\ m_roleNames' = m_roleNames
       /\ m_nextRoleId' = m_nextRoleId
       /\ rOp'.op = "getModelCount" => rOp'.ret = 0]_vars

\* getModelCount with an unknown name while the existing model has rows
C19_Witness ==
  /\ rOp.op = "getModelCount"
  /\ rOp.name \notin g_models
  /\ rOp.ret = 0
  /\ g_models # {}
  /\ count > 0

(***************************************************************************)
(* Properties of reads that run beside a call (SpecThreads).               *)
(***************************************************************************)
\* C18: a read by the UI that falls into a setModelData or clearModel call
\* sees the rows and the field ids either as they were before the call or as
\* they are after it, never a mixture and never a torn value.
C18_ReadsSeeBeforeOrAfter ==
  seen.during => seen.kind \in {"before", "after"}

\* the calls, run step by step, end in the state the whole call computes
ThreadCallComputesSetJsonData ==
  (pc = "idle" /\ call.op # "none") => View = AfterView

\* C21: at every instant at most one deferred reload is pending (a notification
\* that finds a reload pending cancels it and arms the delay anew, so the
\* cancelled reload never runs).
C21_AtMostOnePendingReload ==
  Len(timers) <= 1

\* a notification that comes while the timer of the previous notification for
\* the same path is still armed belongs to the same burst as that one
ContinuesBurst ==
  /\ IsNotificationStep
  /\ m_autoReload
  /\ timers # <<>>
  /\ timers[Len(timers)].path = wOp'.path

\* the timers armed by a burst all fire
BurstTimersFire == BurstTimersPending ~> ~BurstTimersPending

\* C22: with auto-reload on, no reload of the path runs between two
\* notifications of the same burst, and once the notifications of a burst have
\* stopped its reload eventually runs.
C22_ReloadOnlyAfterQuiescence ==
  /\ [][ContinuesBurst => ~burst.since]_vars
  /\ BurstTimersFire

\* C23: in every reload the roots listed at the start are handed to deferred
\* deletion and stay listed for the rest of the turn, the component cache is
\* dropped before the load (the load compiles from the file), the load adds
\* its root behind them, and the verification looks at the list after the
\* load; the drain of deferred deletions that follows a reload leaves exactly
\* the root the reload created.
C23_ReloadStepsInOrder ==
  [][/\ IsReloadStep =>
          /\ Len(rootObjects') = Len(rootObjects) + (IF wOp'.loaded THEN 1 ELSE 0)
          /\ \A i \in 1..Len(rootObjects) : rootObjects'[i] = Doomed
          /\ wOp'.loaded => rootObjects'[Len(rootObjects')] = Live
          /\ wOp'.fromSource
          /\ wOp'.result = (IF rootObjects' = <<>> THEN "failure" ELSE "success")
     /\ (wOp.op = "reloadQml" /\ wOp'.op = "deferredDelete") =>
          rootObjects' = (IF wOp.loaded THEN <<Live>> ELSE <<>>)]_vars

\* a reload has torn down the root of the first load and added its own
C23_Witness ==
  /\ wOp.op = "reloadQml"
  /\ wOp.loaded
  /\ wOp.result = "success"
  /\ rootObjects = <<Doomed, Live>>
  /\ wOp.path \in componentCache

C25_EmitAttachesOnDemand ==
  [][/\ attached \subseteq attached'
     /\ (IsEmitStep /\ m_handlers[sfOp'.name] # NoEntry) =>
          /\ attached' \subseteq attached \cup {sfOp'.thread}
          /\ calls' # <<>> => sfOp'.thread \in attached'
          /\ sfOp'.thread \notin attached' => (calls' = <<>> /\ ~crashed')
          /\ sfOp'.thread \in attached' => (calls' # <<>> \/ crashed')
          /\ sfOp'.thread \in attached => attached' = attached]_vars

\* the worker thread has been attached by an emit and the handler was invoked
C25_Witness ==
  /\ sfOp.op = "emit"
  /\ sfOp.thread = "worker"
  /\ "worker" \in attached
  /\ calls # <<>>
  /\ ~crashed

(***************************************************************************)
(* The handle table under register beside emit (SpecEmitThreads).          *)
(***************************************************************************)
\* C26: between an emit's lookup and its invocation no register or unregister
\* step runs, and a handle that was pinned at the lookup is still in the
\* table and pinned when the emit invokes it.
C26_NoTableStepInsideEmit ==
  [][emitting # NoEmit =>
       /\ sfOp'.op = "emit"
       /\ (emitting' = NoEmit /\ emitting.pinned) =>
            /\ m_handlers[emitting.name] # NoEntry
            /\ globalRefs[m_handlers[emitting.name]] # Free]_vars

\* C27: after every register call, whatever it returns, every handle the
\* table holds is pinned; a register that returns false leaves no entry that
\* refers to an unpinned handle.
C27_TableHandlesPinnedAfterRegister ==
  [][sfOp'.op = "register" =>
       \A n \in SignalNames :
         m_handlers'[n] # NoEntry => globalRefs'[m_handlers'[n]] # Free]_vars

\* C29: no reload runs while auto-reload is off, the reload that was pending
\* when auto-reload was turned off included.
C29_NoReloadWhileDisabled == [][IsReloadStep => m_autoReload]_vars

\* C30: after every change notification, with auto-reload on or off, the
\* path that changed is in the watch set, also when the watch mechanism
\* dropped it on firing (a re-arm that the file system refuses set aside).
C30_PathWatchedWhateverTheFlag ==
  [][(IsNotificationStep /\ (m_autoReload => (~wOp'.dropped \/ wOp'.added))) =>
       wOp'.path \in files']_vars

====
